---- MODULE Spec2Model ----
(***************************************************************************)
(* A model of two components of pykale:                                    *)
(*   - LmdbDataset (examples/leftnet_step_by_step/m2models/datasets/       *)
(*     lmdb_dataset.py): construction over a directory of LMDB files,      *)
(*     __len__, __getitem__ and close_db;                                  *)
(*   - MPCA (kale/embed/_mpca.py): fit, transform, inverse_transform and   *)
(*     the setting of its parameters.                                      *)
(* The two components share no state; SpecLmdb and SpecMPCA are their      *)
(* specifications.                                                         *)
(***************************************************************************)
EXTENDS Integers, Sequences, FiniteSets, TLC

VARIABLES fs, ds, handles, got, mpca, call, ret

lmdbVars == <<fs, ds, handles, got>>
mpcaVars == <<mpca, call, ret>>
vars == <<fs, ds, handles, got, mpca, call, ret>>

(***************************************************************************)
(* Bounds of the model.                                                    *)
(***************************************************************************)
\* Number of directory entries the source directory may hold.
MaxFiles == 3
\* Largest 'length' value stored in an LMDB file.
MaxLen == 2
\* Largest deviation of a training value from the mean.
MaxVal == 2
\* The mean of every training feature.
DataMean == 1
\* Largest max_iter an estimator is constructed with.
MaxIter == 2
\* Largest integer n_components is set to.
MaxNComp == 3
\* Largest number of features of a vectorised input.
MaxFeat == 3

(***************************************************************************)
(* Helpers.                                                                *)
(***************************************************************************)
RECURSIVE SumSeq(_)
SumSeq(s) == IF s = <<>> THEN 0 ELSE Head(s) + SumSeq(Tail(s))

\* The ascending sequence of a finite set of integers: sorted(...)
RECURSIVE SortedSeq(_)
SortedSeq(S) ==
    IF S = {} THEN <<>>
    ELSE LET m == CHOOSE x \in S : \A y \in S : x <= y
         IN  <<m>> \o SortedSeq(S \ {m})

\* list(range(n))
Range(n) == [j \in 1..n |-> j - 1]

(***************************************************************************)
(* The file system under config['src'].  A directory entry is named by its *)
(* position in path order (1..MaxFiles); ext is its extension ("none": no  *)
(* such entry) and length the value pickled under the key 'length'         *)
(* (NoLength: the key is missing).  An LMDB file of length L stores the    *)
(* elements with keys "0" .. "L-1".                                        *)
(***************************************************************************)
NoLength == -1

NoEntry == [ext |-> "none", length |-> 0]

Entries ==
    {NoEntry, [ext |-> "txt", length |-> 0]}
    \cup {[ext |-> "lmdb", length |-> l] : l \in NoLength..MaxLen}

FileSystems ==
    {[kind |-> "dir", files |-> f] : f \in [1..MaxFiles -> Entries]}
    \cup {[kind |-> k, files |-> [n \in 1..MaxFiles |-> NoEntry]] :
            k \in {"missing", "file"}}

\* self.path.glob("*.lmdb"): nothing unless the path is a directory.
Glob(f) ==
    IF f.kind = "dir"
    THEN {n \in 1..MaxFiles : f.files[n].ext = "lmdb"}
    ELSE {}

\* The keys stored in file n.
StoredKeys(f, n) ==
    IF f.files[n].ext = "lmdb" /\ f.files[n].length > 0
    THEN {ToString(j) : j \in 0..(f.files[n].length - 1)}
    ELSE {}

(***************************************************************************)
(* LmdbDataset.                                                            *)
(***************************************************************************)
\* lmdb.open(str(lmdb_path), subdir=False, readonly=True, lock=False, ...)
connect_db(path) == [path |-> path, readonly |-> TRUE, closed |-> FALSE]

\* A cumsum that forgets the running total.
cumsum_plain(lens) == lens

\* np.cumsum(keylens).tolist()
cumsum(lens) == [i \in 1..Len(lens) |-> SumSeq(SubSeq(lens, 1, i))]

NoDataset ==
    [state |-> "none", envs |-> <<>>, keys |-> <<>>,
     keylen_cumulative |-> <<>>, num_samples |-> 0]

\* The prefix of db_paths whose handles the loop of __init__ opens: all of
\* them, or up to and including the first file with no 'length' key
\* (pickle.loads(None) raises TypeError there).
RECURSIVE OpenedPrefix(_, _)
OpenedPrefix(f, paths) ==
    IF paths = <<>> THEN <<>>
    ELSE IF f.files[Head(paths)].length = NoLength THEN <<Head(paths)>>
    ELSE <<Head(paths)>> \o OpenedPrefix(f, Tail(paths))

\* The assertion left out.
AssertSkipped(db_paths) == TRUE

\* The assertion of __init__ on db_paths.
AssertFound(db_paths) == Len(db_paths) > 0

\* LmdbDataset.__init__: the dataset object and the handles it opened.
NewDataset(f, base) ==
    LET db_paths == SortedSeq(Glob(f))
        opened   == OpenedPrefix(f, db_paths)
        envs     == [i \in 1..Len(opened) |-> base + i]
        hs       == [i \in 1..Len(opened) |-> connect_db(opened[i])]
    IN  IF ~AssertFound(db_paths)
        THEN [obj |-> [NoDataset EXCEPT !.state = "AssertionError"],
              hs  |-> <<>>]
        ELSE IF \E i \in 1..Len(db_paths) : f.files[db_paths[i]].length = NoLength
        THEN [obj |-> [NoDataset EXCEPT !.state = "TypeError"], hs |-> hs]
        ELSE LET keys    == [i \in 1..Len(db_paths) |->
                                Range(f.files[db_paths[i]].length)]
                 keylens == [i \in 1..Len(keys) |-> Len(keys[i])]
             IN  [obj |-> [state |-> "ready", envs |-> envs, keys |-> keys,
                           keylen_cumulative |-> cumsum(keylens),
                           num_samples |-> SumSeq(keylens)],
                  hs  |-> hs]

\* LmdbDataset.__len__
len(d) == d.num_samples

\* bisect_left in place of bisect_right.
bisect_left(a, x) == Cardinality({i \in 1..Len(a) : a[i] < x})

\* bisect.bisect(a, x) = bisect_right: the number of leading entries <= x
\* of the non-decreasing list a.
bisect(a, x) == Cardinality({i \in 1..Len(a) : a[i] <= x})

\* The element index within the chosen db.
ElIdx(d, idx, db_idx) ==
    IF db_idx # 0 THEN idx - d.keylen_cumulative[db_idx] ELSE idx
    \* (Python's _keylen_cumulative[db_idx - 1] is entry db_idx counted from 1)

\* f"{db_idx}_{el_idx}"
FormatId(db_idx, el_idx) == ToString(db_idx) \o "_" \o ToString(el_idx)

NoItem ==
    [idx |-> 0, status |-> "none", db_idx |-> 0, el_idx |-> 0,
     path |-> 0, key |-> "", id |-> ""]

\* LmdbDataset.__getitem__(idx), db_idx and el_idx as Python computes them
\* (counted from 0).
GetItemOf(d, hs, f, idx) ==
    LET db_idx == bisect(d.keylen_cumulative, idx)
        el_idx == ElIdx(d, idx, db_idx)
        res    == [NoItem EXCEPT !.idx = idx, !.db_idx = db_idx, !.el_idx = el_idx]
    IN  IF ~(el_idx >= 0) THEN [res EXCEPT !.status = "AssertionError"]
        ELSE IF db_idx >= Len(d.envs) THEN [res EXCEPT !.status = "IndexError"]
        ELSE IF hs[d.envs[db_idx + 1]].closed THEN [res EXCEPT !.status = "lmdb.Error"]
        ELSE IF el_idx >= Len(d.keys[db_idx + 1]) THEN [res EXCEPT !.status = "IndexError"]
        ELSE LET key  == ToString(d.keys[db_idx + 1][el_idx + 1])
                 path == hs[d.envs[db_idx + 1]].path
             IN  IF key \notin StoredKeys(f, path)
                 THEN [res EXCEPT !.status = "TypeError", !.path = path, !.key = key]
                 ELSE [res EXCEPT !.status = "ok", !.path = path, !.key = key,
                                  !.id = FormatId(db_idx, el_idx)]

(***************************************************************************)
(* Tensors.  A tensor is a record of its shape and its values, the values  *)
(* a function of the index tuples (positions counted from 1).  Values are  *)
(* integers: the model computes with data whose means and eigenvectors are *)
(* integral, so that every step of MPCA is exact.                          *)
(***************************************************************************)
RECURSIVE Prod(_)
\* np.prod(shape)
Prod(s) == IF s = <<>> THEN 1 ELSE Head(s) * Prod(Tail(s))

RECURSIVE Idx(_)
\* The index tuples of a shape.
Idx(shape) ==
    IF shape = <<>> THEN {<<>>}
    ELSE {<<i>> \o r : i \in 1..Head(shape), r \in Idx(Tail(shape))}

RECURSIVE SeqOf(_, _)
\* The sequence f(1), ..., f(n), written out.
SeqOf(f(_), n) == IF n = 0 THEN <<>> ELSE Append(SeqOf(f, n - 1), f(n))

RECURSIVE Sum(_, _)
\* f(1) + ... + f(n)
Sum(f(_), n) == IF n = 0 THEN 0 ELSE Sum(f, n - 1) + f(n)

\* s with its k-th entry removed / with v put in as the k-th entry / with v
\* in place of the k-th entry.
RemoveAt(s, k) == SubSeq(s, 1, k - 1) \o SubSeq(s, k + 1, Len(s))
InsertAt(s, k, v) == SubSeq(s, 1, k - 1) \o <<v>> \o SubSeq(s, k, Len(s))
ReplaceAt(s, k, v) == [s EXCEPT ![k] = v]

RECURSIVE CFlat(_, _)
\* The position (from 0) of index tuple i in row-major (C) order.
CFlat(i, dims) ==
    IF dims = <<>> THEN 0
    ELSE (Head(i) - 1) * Prod(Tail(dims)) + CFlat(Tail(i), Tail(dims))

RECURSIVE Unflat(_, _)
\* The index tuple at position c (from 0) in row-major order.
Unflat(c, dims) ==
    IF dims = <<>> THEN <<>>
    ELSE LET p == Prod(Tail(dims))
         IN  <<(c \div p) + 1>> \o Unflat(c % p, Tail(dims))

\* The tensor of a shape with the value f(i) at index tuple i.  The values
\* are written out once (@@ does that), not recomputed at every use.
Tensor(shape, f(_)) == [shape |-> shape, val |-> [i \in Idx(shape) |-> f(i)] @@ <<>>]

\* x.ndim
ndim(t) == Len(t.shape)

\* X[j, :]: the j-th sample (j from 1) of a batch.
Sample(X, j) == Tensor(Tail(X.shape), LAMBDA i : X.val[<<j>> \o i])

\* np.mean(X, axis=0)
mean(X) ==
    Tensor(Tail(X.shape),
           LAMBDA i : Sum(LAMBDA j : X.val[<<j>> \o i], X.shape[1]) \div X.shape[1])

\* The mean of X over its first axis is integral.
MeanIsExact(X) ==
    \A i \in Idx(Tail(X.shape)) :
        Sum(LAMBDA j : X.val[<<j>> \o i], X.shape[1]) % X.shape[1] = 0

\* X - mean_ and X + mean_, mean_ broadcast over the first axis.
SubMean(X, mu) == Tensor(X.shape, LAMBDA i : X.val[i] - mu.val[Tail(i)])
AddMean(X, mu) == Tensor(X.shape, LAMBDA i : X.val[i] + mu.val[Tail(i)])

\* tensorly.base.unfold(t, mode): mode counted from 0; the other modes keep
\* their order, the last varying fastest.
unfold(t, mode) ==
    LET rest == RemoveAt(t.shape, mode + 1)
    IN  Tensor(<<t.shape[mode + 1], Prod(rest)>>,
               LAMBDA i : t.val[InsertAt(Unflat(i[2] - 1, rest), mode + 1, i[1])])

\* tensorly.base.fold(mat, mode, shape)
fold(mat, mode, shape) ==
    Tensor(shape,
           LAMBDA i : mat.val[<<i[mode + 1],
                                CFlat(RemoveAt(i, mode + 1), RemoveAt(shape, mode + 1)) + 1>>])

\* A.T
Transpose(A) == Tensor(<<A.shape[2], A.shape[1]>>, LAMBDA i : A.val[<<i[2], i[1]>>])

\* np.dot(A, B) of two matrices
dot(A, B) ==
    Tensor(<<A.shape[1], B.shape[2]>>,
           LAMBDA i : Sum(LAMBDA k : A.val[<<i[1], k>>] * B.val[<<k, i[2]>>], A.shape[2]))

\* A + B, elementwise
Plus(A, B) == Tensor(A.shape, LAMBDA i : A.val[i] + B.val[i])

Zeros(shape) == Tensor(shape, LAMBDA i : 0)

\* tensorly.tenalg.mode_dot(t, M, mode): mode counted from 0.
mode_dot(t, M, mode) ==
    Tensor(ReplaceAt(t.shape, mode + 1, M.shape[1]),
           LAMBDA i : Sum(LAMBDA k : M.val[<<i[mode + 1], k>>]
                                       * t.val[ReplaceAt(i, mode + 1, k)],
                          M.shape[2]))

RECURSIVE multi_mode_dot(_, _, _, _)
\* tensorly.tenalg.multi_mode_dot(t, mats, modes, transpose)
multi_mode_dot(t, mats, modes, transpose) ==
    IF mats = <<>> THEN t
    ELSE multi_mode_dot(
             mode_dot(t, IF transpose THEN Transpose(Head(mats)) ELSE Head(mats), Head(modes)),
             Tail(mats), Tail(modes), transpose)

\* np.diag(A) of a square matrix
diag(A) == SeqOf(LAMBDA k : A.val[<<k, k>>], A.shape[1])

IsDiagonal(A) == \A i \in Idx(A.shape) : i[1] # i[2] => A.val[i] = 0

\* (-1 * v).argsort(): the positions (from 0) of v in decreasing order of
\* value, equal values in their order of appearance.
argsort_desc(v) ==
    LET before(i) == Cardinality({j \in 1..Len(v) :
                                     v[j] > v[i] \/ (v[j] = v[i] /\ j < i)})
    IN  SeqOf(LAMBDA k : (CHOOSE i \in 1..Len(v) : before(i) = k - 1) - 1, Len(v))

\* np.linalg.eig of a diagonal matrix: its diagonal, and the unit vectors.
eig(A) ==
    [values  |-> diag(A),
     vectors |-> Tensor(A.shape, LAMBDA i : IF i[1] = i[2] THEN 1 ELSE 0)]

\* eig_vectors[:, idx_sorted][:, :p].T
TopRows(vectors, idx_sorted, p) ==
    Tensor(<<p, vectors.shape[1]>>, LAMBDA i : vectors.val[<<i[2], idx_sorted[i[1]] + 1>>])

(***************************************************************************)
(* MPCA.                                                                   *)
(***************************************************************************)
\* self.n_components: None, a Python int, or the numpy integer np.prod
\* returns (which is no instance of int).
NoneVal == [type |-> "NoneType", value |-> 0]
PyInt(k) == [type |-> "int", value |-> k]
NpInt(k) == [type |-> "int64", value |-> k]

\* isinstance(x, int)
IsInt(x) == x.type = "int"

\* MPCA.__init__
NewMPCA(var_ratio, max_iter, vectorise, n_components) ==
    [var_ratio |-> var_ratio, max_iter |-> max_iter, vectorise |-> vectorise,
     n_components |-> n_components, proj_mats |-> <<>>,
     attrs |-> {}, shape_in |-> <<>>, mean_ |-> Zeros(<<>>),
     idx_order |-> <<>>, shape_out |-> <<>>, n_dim |-> 0]

RECURSIVE MatSum(_, _, _)
\* phi = 0; for j in range(n): phi = phi + term(j)
MatSum(term(_), n, shape) ==
    IF n = 0 THEN Zeros(shape) ELSE Plus(MatSum(term, n - 1, shape), term(n))

\* np.dot(A, A.T)
Gram(A) == dot(A, Transpose(A))

\* The first loop of _fit: phi[i] summed over the samples (i from 1).
InitPhi(Xc, i) ==
    MatSum(LAMBDA j : Gram(unfold(Sample(Xc, j), i - 1)),
           Xc.shape[1], <<Xc.shape[i + 1], Xc.shape[i + 1]>>)

RECURSIVE PrefixSum(_, _)
\* np.sum(cum[:j])
PrefixSum(cum, j) == IF j = 0 THEN 0 ELSE PrefixSum(cum, j - 1) + cum[j]

\* part / var_tot > self.var_ratio, var_ratio the fraction num/den; 0/0 is
\* nan, which compares False.
RatioAbove(part, var_tot, var_ratio) ==
    var_tot # 0 /\ part * var_ratio[2] > var_ratio[1] * var_tot

\* np.sum(cum[:j]) / var_tot > self.var_ratio
ExceedsRatio(cum, j, var_ratio) ==
    RatioAbove(PrefixSum(cum, j), PrefixSum(cum, Len(cum)), var_ratio)

\* The least of a set of numbers, 0 if there is none.
FirstOf(hits) == IF hits = {} THEN 0 ELSE CHOOSE j \in hits : \A k \in hits : j <= k

\* The j at which the loop of _fit breaks; 0 if it never does, and then
\* shape_out gets no entry for the mode.
KeepCount(cum, var_ratio) ==
    FirstOf({j \in 1..Len(cum) : ExceedsRatio(cum, j, var_ratio)})

\* eig_values[idx_sorted]
TakeValues(values, idx_sorted) ==
    SeqOf(LAMBDA k : values[idx_sorted[k] + 1], Len(idx_sorted))

\* The eigenvectors of phi, and its eigenvalues in decreasing order.
Sorted(e, idx_sorted) ==
    [vectors |-> e.vectors, idx_sorted |-> idx_sorted,
     cum |-> TakeValues(e.values, idx_sorted)]

ByValue(e) == Sorted(e, argsort_desc(e.values))

SortedEig(phi) == ByValue(eig(phi))

\* The second loop of _fit, for mode i: the number of components kept.
ModeKeep(Xc, i, var_ratio) == KeepCount(SortedEig(InitPhi(Xc, i)).cum, var_ratio)

\* eig_vectors[:, idx_sorted][:, :p].T
ProjOf(se, p) == TopRows(se.vectors, se.idx_sorted, p)

\* The second loop of _fit, for mode i: the initial projection matrix.
ModeProj(Xc, i, p) == ProjOf(SortedEig(InitPhi(Xc, i)), p)

\* [m for m in range(n_dim - 1) if m != i - 1], the modes counted from 0
\* and i from 1.
Others(n, i) == SeqOf(LAMBDA k : IF k < i THEN k - 1 ELSE k, n - 1)

\* phi[i] of one iteration: the samples projected in every mode but i.
IterPhi(Xc, proj_mats, i) ==
    MatSum(LAMBDA j : Gram(unfold(multi_mode_dot(Sample(Xc, j),
                                                 RemoveAt(proj_mats, i),
                                                 Others(Len(proj_mats), i),
                                                 FALSE),
                                  i - 1)),
           Xc.shape[1], <<Xc.shape[i + 1], Xc.shape[i + 1]>>)

RECURSIVE IterModes(_, _, _, _)
\* One iteration of _fit from mode i on: each mode's matrix is replaced in
\* turn, the later modes seeing the earlier replacements.
IterModes(Xc, proj_mats, shape_out, i) ==
    IF i > Len(proj_mats) THEN proj_mats
    ELSE IterModes(Xc,
                   ReplaceAt(proj_mats, i,
                             ProjOf(SortedEig(IterPhi(Xc, proj_mats, i)), shape_out[i])),
                   shape_out, i + 1)

RECURSIVE Iterate(_, _, _, _)
\* for i_iter in range(self.max_iter)
Iterate(Xc, proj_mats, shape_out, iters) ==
    IF iters = 0 THEN proj_mats
    ELSE Iterate(Xc, IterModes(Xc, proj_mats, shape_out, 1), shape_out, iters - 1)

\* modes=[m for m in range(1, n_dim)]
SampleModes(n_dim) == SeqOf(LAMBDA k : k, n_dim - 1)

\* np.diag(np.dot(A.T, A))
CovDiag(A) == diag(dot(Transpose(A), A))

\* idx_order of _fit: the vectorised features in decreasing order of the
\* diagonal of their covariance.
IdxOrder(Xc, proj_mats) ==
    argsort_desc(CovDiag(unfold(multi_mode_dot(Xc, proj_mats, SampleModes(ndim(Xc)), FALSE),
                                0)))

\* The n_components check of _fit, which reads self.shape_out.
ClampComponents(e) ==
    IF e.vectorise /\ IsInt(e.n_components)
          /\ e.n_components.value > Prod(e.shape_out)
    THEN NpInt(Prod(e.shape_out))
    ELSE e.n_components

\* What _fit computes from the data once every mode has its number of
\* components: the projection matrices after max_iter iterations and the
\* feature order.
Solved(X, mean_, X_, shape_out, proj_mats) ==
    [n_dim |-> ndim(X), shape_in |-> Tail(X.shape), mean_ |-> mean_, found |-> TRUE,
     shape_out |-> shape_out, proj_mats |-> proj_mats,
     idx_order |-> IdxOrder(X_, proj_mats)]

\* _fit after its second loop, keeps the components each mode keeps (0: the
\* loop found none, and shape_out[i - 1] then raises IndexError).
Kept(X, mean_, X_, keeps, max_iter) ==
    IF \E i \in 1..Len(keeps) : keeps[i] = 0
    THEN [n_dim |-> ndim(X), shape_in |-> Tail(X.shape), mean_ |-> mean_, found |-> FALSE,
          shape_out |-> keeps, proj_mats |-> <<>>, idx_order |-> <<>>]
    ELSE Solved(X, mean_, X_, keeps,
                Iterate(X_, SeqOf(LAMBDA i : ModeProj(X_, i, keeps[i]), Len(keeps)),
                        keeps, max_iter))

\* _fit from X_ = X - self.mean_ on
Centred(X, mean_, X_, var_ratio, max_iter) ==
    Kept(X, mean_, X_, SeqOf(LAMBDA i : ModeKeep(X_, i, var_ratio), ndim(X) - 1), max_iter)

\* _fit from self.mean_ on
WithMean(X, mean_, var_ratio, max_iter) ==
    Centred(X, mean_, SubMean(X, mean_), var_ratio, max_iter)

\* The part of _fit that reads the data only.
FitData(X, var_ratio, max_iter) == WithMean(X, mean(X), var_ratio, max_iter)

\* tensorly's mode_dot raises ValueError unless the matrices' columns match
\* the tensor's modes.
RECURSIVE ModeDotFits(_, _, _, _)
ModeDotFits(shape, mats, modes, transpose) ==
    IF mats = <<>> THEN TRUE
    ELSE LET M == Head(mats)
             rows == IF transpose THEN M.shape[2] ELSE M.shape[1]
             cols == IF transpose THEN M.shape[1] ELSE M.shape[2]
         IN  /\ Head(modes) + 1 <= Len(shape)
             /\ cols = shape[Head(modes) + 1]
             /\ ModeDotFits(ReplaceAt(shape, Head(modes) + 1, rows),
                            Tail(mats), Tail(modes), transpose)

\* What a call returns or raises; "where" names the function that raised.
Returned(v) == [status |-> "ok", where |-> "", value |-> v]
Raised(exc, where) == [status |-> exc, where |-> where, value |-> Zeros(<<>>)]
NoRet == Raised("none", "")

\* _check_ndim(x, n_dim): the message of its ValueError reads x.n_dim, which
\* no array has, so the raise statement ends in AttributeError.
check_ndim(x, n_dim) ==
    IF ~(ndim(x) = n_dim) THEN Raised("AttributeError", "_check_ndim") ELSE NoRet

\* _check_shape(x, shape_)
check_shape(x, shape_) ==
    IF ~(Tail(x.shape) = shape_) THEN Raised("ValueError", "_check_shape") ELSE NoRet

\* _check_dim_shape(x, n_dim, shape_)
check_dim_shape(x, n_dim, shape_) ==
    IF check_ndim(x, n_dim) # NoRet THEN check_ndim(x, n_dim)
    ELSE check_shape(x, shape_)

\* tensor_pc[:, cols]: the columns of a matrix picked by position (from 0).
TakeColumns(A, cols) ==
    Tensor(<<A.shape[1], Len(cols)>>, LAMBDA i : A.val[<<i[1], cols[i[2]] + 1>>])

\* s[:k] of a sequence, k >= 0
FirstK(s, k) == SubSeq(s, 1, IF k < Len(s) THEN k ELSE Len(s))

\* tensor_pc[:, self.idx_order], and [:, : self.n_components] of it if
\* n_components is an int
Vectorised(e, ordered) ==
    IF IsInt(e.n_components)
    THEN TakeColumns(ordered,
                     FirstK(SeqOf(LAMBDA k : k - 1, ordered.shape[2]), e.n_components.value))
    ELSE ordered

\* What transform returns for its tensor principal components.
Shaped(e, tensor_pc) ==
    IF e.vectorise THEN Vectorised(e, TakeColumns(unfold(tensor_pc, 0), e.idx_order))
    ELSE tensor_pc

\* transform from X -= self.mean_ on, Xc the array after it
Project(e, Xc) ==
    IF ~ModeDotFits(Xc.shape, e.proj_mats, SampleModes(e.n_dim), FALSE)
    THEN [ret |-> Raised("ValueError", "mode_dot"), X |-> Xc]
    ELSE [ret |-> Returned(Shaped(e, multi_mode_dot(Xc, e.proj_mats,
                                                    SampleModes(e.n_dim), FALSE))),
          X |-> Xc]

\* transform after _check_dim_shape, checked what the check gave
Checked(e, X, checked) ==
    IF checked # NoRet THEN [ret |-> checked, X |-> X]
    ELSE Project(e, SubMean(X, e.mean_))

\* MPCA.transform(X): what it returns or raises, and X after the call
\* (X -= self.mean_ changes the caller's array).
TransformOf(e, X) ==
    IF ~({"n_dim", "shape_in"} \subseteq e.attrs)
    THEN [ret |-> Raised("AttributeError", "transform"), X |-> X]
    ELSE Checked(e, X, check_dim_shape(X, e.n_dim, e.shape_in))

\* X.reshape((1, -1)) of a 1-D array
AsOneSample(X) == Tensor(<<1, X.shape[1]>>, LAMBDA i : X.val[<<i[2]>>])

\* X_rec, with the mean added if asked
Rec(e, X_rec, add_mean) == Returned(IF add_mean THEN AddMean(X_rec, e.mean_) ELSE X_rec)

\* The branch of inverse_transform for vectorised input, X a matrix.
\* X_[:, : self.idx_order[: n_feat]] takes an array as the stop of a slice,
\* which numpy refuses with TypeError.
InverseVec(e, X) ==
    IF "shape_out" \notin e.attrs
    THEN Raised("AttributeError", "inverse_transform")
    ELSE IF X.shape[2] <= Prod(e.shape_out)
    THEN Raised("TypeError", "inverse_transform")
    ELSE Raised("ValueError", "inverse_transform")

\* MPCA.inverse_transform(X, add_mean)
InverseOf(e, X, add_mean) ==
    IF ndim(X) <= 2
    THEN InverseVec(e, IF ndim(X) = 1 THEN AsOneSample(X) ELSE X)
    ELSE IF "n_dim" \notin e.attrs
    THEN Raised("AttributeError", "inverse_transform")
    ELSE IF ~ModeDotFits(X.shape, e.proj_mats, SampleModes(e.n_dim), TRUE)
    THEN Raised("ValueError", "mode_dot")
    ELSE Rec(e, multi_mode_dot(X, e.proj_mats, SampleModes(e.n_dim), TRUE), add_mean)

(***************************************************************************)
(* The inputs of the MPCA calls.                                           *)
(***************************************************************************)
\* A batch from its samples, each the values of a tensor of the given shape
\* in row-major order.
Batch(shape, samples) ==
    Tensor(<<Len(samples)>> \o shape,
           LAMBDA i : samples[i[1]][CFlat(Tail(i), shape) + 1])

\* Training batches of 2 x 2 samples mu + D and mu - D, D diagonal or
\* antidiagonal with entries a and b.
Order2Sets ==
    {Batch(<<2, 2>>,
           IF anti
           THEN << <<DataMean, DataMean + a, DataMean + b, DataMean>>,
                   <<DataMean, DataMean - a, DataMean - b, DataMean>> >>
           ELSE << <<DataMean + a, DataMean, DataMean, DataMean + b>>,
                   <<DataMean - a, DataMean, DataMean, DataMean - b>> >>) :
        a \in 0..MaxVal, b \in 0..MaxVal, anti \in BOOLEAN}

\* Training batches of four 2-vectors: mu +- (a, 0) and mu +- (0, b).
Order1Sets ==
    {Batch(<<2>>,
           << <<DataMean + a, DataMean>>, <<DataMean - a, DataMean>>,
              <<DataMean, DataMean + b>>, <<DataMean, DataMean - b>> >>) :
        a \in 0..MaxVal, b \in 0..MaxVal}

\* Every scatter matrix fit decomposes for X is diagonal.
InEigDomain(X) ==
    /\ MeanIsExact(X)
    /\ \A i \in 1..(ndim(X) - 1) : IsDiagonal(InitPhi(SubMean(X, mean(X)), i))

\* The training batches, all of them in the domain eig is modelled on.
TrainSets == {X \in Order2Sets \cup Order1Sets : InEigDomain(X)}

\* Arrays that are no training batch: for samples of order 1 and of order
\* 2, one with the per-sample shape of the training batches and one with
\* another.
OtherInputs ==
    {Batch(<<1, 2>>, << <<1, 2>> >>),
     Batch(<<2>>, << <<1, 2>> >>),
     Batch(<<1>>, << <<3>>, <<1>> >>),
     Batch(<<2, 2>>, << <<1, 2, 3, 4>> >>)}

\* Vectorised arrays: 2-D with 1..MaxFeat features, or 1-D.
VectorInputs ==
    {Batch(<<k>>, <<SeqOf(LAMBDA c : c, k), SeqOf(LAMBDA c : 0, k)>>) : k \in 1..MaxFeat}
    \cup {Tensor(<<k>>, LAMBDA i : i[1]) : k \in 1..MaxFeat}

VarRatios == {<<1, 2>>, <<97, 100>>}

NCompValues == {NoneVal} \cup {PyInt(k) : k \in 1..MaxNComp}

\* FitData of every training batch under every var_ratio and max_iter an
\* estimator is constructed with, computed once.
FitTable ==
    [k \in TrainSets \X VarRatios \X (1..MaxIter) |-> FitData(k[1], k[2], k[3])] @@ <<>>

\* _fit after self.shape_in and self.mean_ are assigned, e1 the estimator
\* then and d what the data gives.  The n_components check reads
\* self.shape_out, which only the end of an earlier _fit has assigned.
FitFrom(e1, d) ==
    IF ~d.found
    THEN [obj |-> e1, status |-> "IndexError"]
    ELSE IF e1.vectorise /\ IsInt(e1.n_components) /\ "shape_out" \notin e1.attrs
    THEN [obj |-> e1, status |-> "AttributeError"]
    ELSE [obj |-> [e1 EXCEPT !.n_components = ClampComponents(e1),
                             !.proj_mats = d.proj_mats,
                             !.idx_order = d.idx_order,
                             !.shape_out = d.shape_out,
                             !.n_dim = d.n_dim,
                             !.attrs = @ \cup {"idx_order", "shape_out", "n_dim"}],
          status |-> "ok"]

\* self.shape_in = shape_[1:]; self.mean_ = np.mean(X, axis=0)
Assigned(e, d) ==
    FitFrom([e EXCEPT !.shape_in = d.shape_in, !.mean_ = d.mean_,
                      !.attrs = @ \cup {"shape_in", "mean_"}], d)

\* MPCA._fit(X): the estimator after the call, and how the call ended.
FitOf(e, X) == Assigned(e, FitTable[<<X, e.var_ratio, e.max_iter>>])

(***************************************************************************)
(* The MPCA estimator and its callers.  call records the last call: the    *)
(* operation, its argument as passed and as the call left it, and the      *)
(* estimator's n_components before it; fed says that inverse_transform got *)
(* the array the transform just before it returned, orig being what that   *)
(* transform was given; fit_current says that no parameter was set since   *)
(* the last fit that completed.                                            *)
(***************************************************************************)
NoCall ==
    [op |-> "none", arg |-> Zeros(<<>>), arg_after |-> Zeros(<<>>),
     add_mean |-> FALSE, nc_before |-> NoneVal,
     fed |-> FALSE, orig |-> Zeros(<<>>), fit_current |-> FALSE]

IdleMPCA ==
    /\ mpca = NewMPCA(<<97, 100>>, 1, FALSE, NoneVal)
    /\ call = NoCall
    /\ ret = NoRet

IdleLmdb ==
    /\ fs = [kind |-> "missing", files |-> [n \in 1..MaxFiles |-> NoEntry]]
    /\ ds = NoDataset
    /\ handles = <<>>
    /\ got = NoItem

\* MPCA(var_ratio, max_iter, vectorise, n_components)
InitMPCA ==
    /\ mpca \in {NewMPCA(vr, it, v, nc) :
                    vr \in VarRatios, it \in 1..MaxIter, v \in BOOLEAN, nc \in NCompValues}
    /\ call = NoCall
    /\ ret = NoRet
    /\ IdleLmdb

\* mpca.fit(X)
Fit ==
    /\ \E X \in TrainSets :
       \E r \in {FitOf(mpca, X)} :
          /\ mpca' = r.obj
          /\ ret' = IF r.status = "ok" THEN Returned(Zeros(<<>>))
                    ELSE Raised(r.status, "_fit")
          /\ call' = [NoCall EXCEPT !.op = "fit",
                                    !.nc_before = mpca.n_components,
                                    !.fit_current = (r.status = "ok") \/ call.fit_current]
    /\ UNCHANGED lmdbVars

\* The data gives the estimator the fitted attributes it has.
FitGives(e, d) ==
    /\ "n_dim" \in e.attrs
    /\ d.found
    /\ <<e.n_dim, e.shape_in, e.mean_, e.shape_out, e.proj_mats, e.idx_order>>
       = <<d.n_dim, d.shape_in, d.mean_, d.shape_out, d.proj_mats, d.idx_order>>

\* The training batches whose fit gives the estimator its fitted attributes.
TrainedOn(e) ==
    {X \in TrainSets : FitGives(e, FitTable[<<X, e.var_ratio, e.max_iter>>])}

\* mpca.transform(X), X the data the estimator was fitted on or another array
Transform ==
    /\ \E X \in TrainedOn(mpca) \cup OtherInputs :
       \E r \in {TransformOf(mpca, X)} :
          /\ ret' = r.ret
          /\ call' = [NoCall EXCEPT !.op = "transform", !.arg = X, !.arg_after = r.X,
                                    !.nc_before = mpca.n_components,
                                    !.fit_current = call.fit_current]
    /\ UNCHANGED <<mpca, lmdbVars>>

\* mpca.inverse_transform(X, add_mean), X a vectorised array or what the
\* transform just before returned.
InverseTransform ==
    /\ \E add_mean \in BOOLEAN :
       \E X \in VectorInputs
                \cup (IF call.op = "transform" /\ ret.status = "ok"
                      THEN {ret.value} ELSE {}) :
          LET fed == call.op = "transform" /\ ret.status = "ok" /\ X = ret.value
          IN  /\ ret' = InverseOf(mpca, X, add_mean)
              /\ call' = [NoCall EXCEPT !.op = "inverse_transform", !.arg = X,
                                        !.arg_after = X, !.add_mean = add_mean,
                                        !.nc_before = mpca.n_components,
                                        !.fed = fed,
                                        !.orig = IF fed THEN call.arg ELSE Zeros(<<>>),
                                        !.fit_current = call.fit_current]
    /\ UNCHANGED <<mpca, lmdbVars>>

\* mpca.set_params(vectorise=..., n_components=...)
set_params ==
    /\ \E v \in BOOLEAN, nc \in NCompValues :
          /\ <<v, nc>> # <<mpca.vectorise, mpca.n_components>>
          /\ mpca' = [mpca EXCEPT !.vectorise = v, !.n_components = nc]
    /\ ret' = Returned(Zeros(<<>>))
    /\ call' = [NoCall EXCEPT !.op = "set_params", !.nc_before = mpca.n_components]
    /\ UNCHANGED lmdbVars

NextMPCA == Fit \/ Transform \/ InverseTransform \/ set_params

SpecMPCA == InitMPCA /\ [][NextMPCA]_vars

InitLmdb ==
    /\ fs \in FileSystems
    /\ ds = NoDataset
    /\ handles = <<>>
    /\ got = NoItem
    /\ IdleMPCA

\* LmdbDataset(config, parallel_collater)
Construct ==
    /\ ds.state = "none"
    /\ LET r == NewDataset(fs, Len(handles))
       IN  /\ ds' = r.obj
           /\ handles' = handles \o r.hs
    /\ UNCHANGED <<fs, got, mpcaVars>>

\* dataset[idx]
GetItem ==
    /\ ds.state = "ready"
    /\ \E idx \in -1..len(ds) :
          got' = GetItemOf(ds, handles, fs, idx)
    /\ UNCHANGED <<fs, ds, handles, mpcaVars>>

\* dataset.close_db()
close_db ==
    /\ ds.state = "ready"
    /\ \E i \in 1..Len(handles) : ~handles[i].closed
    /\ IF fs.kind # "file"
       THEN /\ handles' = [i \in 1..Len(handles) |->
                             IF \E j \in 1..Len(ds.envs) : ds.envs[j] = i
                             THEN [handles[i] EXCEPT !.closed = TRUE]
                             ELSE handles[i]]
            /\ got' = got
       ELSE /\ handles' = handles
            /\ got' = [NoItem EXCEPT !.status = "AttributeError"]
    /\ UNCHANGED <<fs, ds, mpcaVars>>

NextLmdb == Construct \/ GetItem \/ close_db

SpecLmdb == InitLmdb /\ [][NextLmdb]_vars

(***************************************************************************)
(* Properties of LmdbDataset.                                              *)
(***************************************************************************)
\* The LMDB files of the directory, as a set of entry names.
LmdbFiles == {n \in 1..MaxFiles : fs.kind = "dir" /\ fs.files[n].ext = "lmdb"}

\* The file behind the i-th handle of the dataset (i counted from 1).
EnvPath(i) == handles[ds.envs[i]].path

\* L_0 + ... + L_{i-1}: the stored lengths of the first i files of the dataset.
RECURSIVE LengthsBefore(_)
LengthsBefore(i) ==
    IF i = 0 THEN 0 ELSE LengthsBefore(i - 1) + fs.files[EnvPath(i)].length

AllOpen == \A i \in 1..Len(handles) : ~handles[i].closed

\* C3: after a construction over a directory with k >= 1 '*.lmdb' files,
\* exactly one read-only handle has been opened per file, envs[i] is the
\* handle of the i-th file in sorted path order, _keylen_cumulative[i] is
\* the sum of the stored lengths of files 0..i, and len(dataset) is the sum
\* of the lengths of all k files.
C3_Construction ==
    ds.state = "ready" =>
        /\ Len(ds.envs) = Cardinality(LmdbFiles)
        /\ Len(handles) = Cardinality(LmdbFiles)
        /\ {EnvPath(i) : i \in 1..Len(ds.envs)} = LmdbFiles
        /\ \A i, j \in 1..Len(ds.envs) : i < j => EnvPath(i) < EnvPath(j)
        /\ \A i, j \in 1..Len(ds.envs) : i # j => ds.envs[i] # ds.envs[j]
        /\ \A i \in 1..Len(handles) : handles[i].readonly
        /\ Len(ds.keylen_cumulative) = Len(ds.envs)
        /\ \A i \in 1..Len(ds.envs) : ds.keylen_cumulative[i] = LengthsBefore(i)
        /\ len(ds) = LengthsBefore(Len(ds.envs))

\* C3's case: a dataset built over three files, the middle one empty.
C3_Witness ==
    /\ ds.state = "ready"
    /\ Len(ds.envs) = 3
    /\ ds.keylen_cumulative = <<2, 2, 3>>
    /\ len(ds) = 3

\* What __getitem__(idx) answers in the current state.
Item(idx) == GetItemOf(ds, handles, fs, idx)

\* C2: for every 0 <= idx < len(dataset), __getitem__(idx) reads file
\* db_idx and element el_idx with idx = L_0 + ... + L_{db_idx-1} + el_idx
\* and 0 <= el_idx < L_{db_idx} (files of length 0 included); distinct idx
\* read distinct stored elements and get distinct ids, and every stored
\* element is read by some idx.  The last __getitem__ call answered so.
C2_GetItemBijection ==
    ds.state = "ready" =>
        /\ \A idx \in 0..(len(ds) - 1) :
              LET r == Item(idx)
              IN  /\ r.db_idx \in 0..(Len(ds.envs) - 1)
                  /\ idx = LengthsBefore(r.db_idx) + r.el_idx
                  /\ 0 <= r.el_idx
                  /\ r.el_idx < fs.files[EnvPath(r.db_idx + 1)].length
                  /\ AllOpen =>
                        /\ r.status = "ok"
                        /\ r.path = EnvPath(r.db_idx + 1)
                        /\ r.key = ToString(r.el_idx)
                        /\ r.id = ToString(r.db_idx) \o "_" \o ToString(r.el_idx)
        /\ \A i, j \in 0..(len(ds) - 1) :
              i # j => /\ <<Item(i).db_idx, Item(i).el_idx>>
                            # <<Item(j).db_idx, Item(j).el_idx>>
                       /\ AllOpen => Item(i).id # Item(j).id
        /\ \A n \in LmdbFiles : \A e \in 0..(fs.files[n].length - 1) :
              \E idx \in 0..(len(ds) - 1) :
                  /\ EnvPath(Item(idx).db_idx + 1) = n
                  /\ Item(idx).el_idx = e
        /\ (got.status = "ok" /\ AllOpen) => got = Item(got.idx)

\* C2's case: __getitem__ answered for the first element after an empty file.
C2_Witness ==
    /\ ds.state = "ready"
    /\ got.status = "ok"
    /\ got.db_idx = 2
    /\ got.el_idx = 0
    /\ got.idx = 2
    /\ ds.keylen_cumulative = <<2, 2, 3>>

\* No '*.lmdb' file is to be found under config['src'].
NoLmdbFound ==
    \/ fs.kind \in {"missing", "file"}
    \/ \A n \in 1..MaxFiles : fs.files[n].ext # "lmdb"

\* C8: a construction over a source with no '*.lmdb' file (a missing path
\* and a regular file included) fails with an assertion error before any
\* database handle is opened, and no dataset with zero databases is usable.
C8_NoLmdbAsserts ==
    /\ (ds.state # "none" /\ NoLmdbFound) =>
          /\ ds.state = "AssertionError"
          /\ handles = <<>>
          /\ ds.envs = <<>>
    /\ ds.state = "ready" => Len(ds.envs) > 0

\* C8's case: the construction was tried on a directory with only other files.
C8_Witness ==
    /\ ds.state = "AssertionError"
    /\ fs.kind = "dir"
    /\ \E n \in 1..MaxFiles : fs.files[n].ext = "txt"
    /\ handles = <<>>


(***************************************************************************)
(* The MPCA properties.                                                    *)
(***************************************************************************)
\* A fit has completed on the estimator.
Fitted(e) == {"shape_in", "mean_", "idx_order", "shape_out", "n_dim"} \subseteq e.attrs

\* X has the order and the per-sample shape the estimator recorded.
ValidFor(e, X) == ndim(X) = e.n_dim /\ Tail(X.shape) = e.shape_in

\* C1: for a fitted MPCA, transform(X) raises ValueError exactly when the
\* order of X differs from the order of the training data or the per-sample
\* shape of X differs from shape_in; an X that matches in both passes the
\* validation.
C1_ValueErrorIffMismatch ==
    (call.op = "transform" /\ Fitted(mpca))
        => /\ (ret.status = "ValueError") <=> ~ValidFor(mpca, call.arg)
           /\ ValidFor(mpca, call.arg) => ret.status = "ok"

\* The tensor principal components of X, unfolded, in the order idx_order.
OrderedColumns(e, X) ==
    TakeColumns(unfold(multi_mode_dot(SubMean(X, e.mean_), e.proj_mats,
                                      SampleModes(e.n_dim), FALSE), 0),
                e.idx_order)

\* C4: for a fitted MPCA whose parameters are those its last fit ran with,
\* and a valid X of n samples, transform(X) returns shape (n,) + shape_out
\* when vectorise is False; when vectorise is True it returns the
\* P_1*...*P_N columns in the order idx_order if n_components is None, and
\* shape (n, n_components) holding the first n_components of those columns
\* if n_components is an integer.
C4_TransformShape ==
    (call.op = "transform" /\ Fitted(mpca) /\ call.fit_current /\ ValidFor(mpca, call.arg))
        => /\ ret.status = "ok"
           /\ IF ~mpca.vectorise
              THEN ret.value.shape = <<call.arg.shape[1]>> \o mpca.shape_out
              ELSE IF mpca.n_components = NoneVal
              THEN /\ ret.value.shape = <<call.arg.shape[1], Prod(mpca.shape_out)>>
                   /\ ret.value = OrderedColumns(mpca, call.arg)
              ELSE /\ ret.value.shape = <<call.arg.shape[1], mpca.n_components.value>>
                   /\ \A i \in Idx(ret.value.shape) :
                         ret.value.val[i] = OrderedColumns(mpca, call.arg).val[i]

\* C5: for an MPCA with vectorise False fitted on X in which every mode
\* keeps all its components, inverse_transform(transform(X), add_mean=True)
\* is X as it was given to transform, and with add_mean=False it is X minus
\* mean_.
C5_RoundTrip ==
    (/\ call.op = "inverse_transform" /\ call.fed
     /\ Fitted(mpca) /\ ~mpca.vectorise
     /\ call.orig \in TrainedOn(mpca)
     /\ mpca.shape_out = mpca.shape_in)
        => /\ ret.status = "ok"
           /\ ret.value = IF call.add_mean THEN call.orig
                          ELSE SubMean(call.orig, mpca.mean_)

\* The vectorised input as a matrix of n_samples rows.
AsMatrix(X) == IF ndim(X) = 1 THEN AsOneSample(X) ELSE X

\* The zero matrix of P_1*...*P_N columns with column k of X placed at
\* column idx_order[k].
Placed(e, X) ==
    Tensor(<<X.shape[1], Prod(e.shape_out)>>,
           LAMBDA i : LET ks == {k \in 1..X.shape[2] : e.idx_order[k] + 1 = i[2]}
                      IN  IF ks = {} THEN 0 ELSE X.val[<<i[1], CHOOSE k \in ks : TRUE>>])

\* C6: for a fitted MPCA, inverse_transform on a vectorised X of n_feat
\* features (a 1-D X being one sample) places column k of X at column
\* idx_order[k] of a zero matrix, folds it to (n,) + shape_out and returns
\* the tensor of shape (n,) + shape_in projected back, if n_feat is at most
\* P_1*...*P_N; it raises ValueError if n_feat is larger.
C6_InverseVectorised ==
    (/\ call.op = "inverse_transform" /\ Fitted(mpca)
     /\ ndim(call.arg) \in {1, 2}
     /\ mpca.n_dim = Len(mpca.shape_in) + 1)
        => LET X == AsMatrix(call.arg)
           IN  IF X.shape[2] <= Prod(mpca.shape_out)
               THEN /\ ret.status = "ok"
                    /\ ret.value.shape = <<X.shape[1]>> \o mpca.shape_in
                    /\ LET X_rec == multi_mode_dot(
                                        fold(Placed(mpca, X), 0,
                                             <<X.shape[1]>> \o mpca.shape_out),
                                        mpca.proj_mats, SampleModes(mpca.n_dim), TRUE)
                       IN  ret.value = IF call.add_mean THEN AddMean(X_rec, mpca.mean_)
                                       ELSE X_rec
               ELSE ret.status = "ValueError"

\* C7: a fit called with vectorise True and an int n_components, on data
\* that gives every mode a component, completes; n_components becomes
\* P_1*...*P_N of this fit if it was larger and is left unchanged otherwise,
\* on a first fit as on a later one.
C7_FitClamps ==
    (/\ call.op = "fit" /\ mpca.vectorise /\ IsInt(call.nc_before)
     /\ ret.status # "IndexError")
        => /\ ret.status = "ok"
           /\ IF call.nc_before.value > Prod(mpca.shape_out)
              THEN mpca.n_components.value = Prod(mpca.shape_out)
              ELSE mpca.n_components = call.nc_before
====
